---------------------------- MODULE Spec2Model ----------------------------
(***************************************************************************)
(* A model of the retrieval-augmented answering pipeline of deepFluxUniHelp *)
(* (backend/app/rag and the API handlers that call it).                     *)
(*                                                                          *)
(* Python's None is modelled as 0 for object references (instances are      *)
(* numbered from 1 in construction order) and as -1 for optional integers.          *)
(***************************************************************************)
EXTENDS Integers, Sequences, FiniteSets, TLC

VARIABLES
    _cached_vectorstore,  \* vectorstore.py: module global, 0 = None
    _rag_chain,           \* chain.py: module global, 0 = None
    _retriever,           \* chain.py: module global, 0 = None
    GROQ_API_KEY,         \* settings.GROQ_API_KEY, a string
    chroma,               \* the persisted collection and every Chroma handle on it
    built,                \* how many embedding providers / LLM clients were constructed
    thr,                  \* one frame per request thread
    st,                   \* the last call of the sequential caller and its result
    rag,                  \* one invoke_rag call on a ready engine: its inputs and its result
    chat,                 \* one POST /chat request: settings, clock, handler, worker, response
    unit                  \* one call of split_documents or get_embeddings: its inputs and its result

vars == <<_cached_vectorstore, _rag_chain, _retriever, GROQ_API_KEY, chroma, built, thr, st, rag,
          chat, unit>>

\* what the steps of the request threads leave alone
offThreads == <<st, rag, chat, unit>>

\* what the calls of the sequential caller leave alone
offStore == <<_rag_chain, _retriever, GROQ_API_KEY, thr, rag, chat, unit>>

\* what an invoke_rag call on a ready engine leaves alone
offRag == <<_cached_vectorstore, _rag_chain, _retriever, GROQ_API_KEY, chroma, built, thr, st, chat, unit>>

\* what a POST /chat request leaves alone
offChat == <<_cached_vectorstore, _rag_chain, _retriever, GROQ_API_KEY, chroma, built, thr, st, rag,
            unit>>

\* what a call of split_documents or get_embeddings leaves alone
offUnit == <<_cached_vectorstore, _rag_chain, _retriever, GROQ_API_KEY, chroma, built, thr, st, rag,
            chat>>

(***************************************************************************)
(* Bounds of the model.                                                     *)
(***************************************************************************)
NumThreads == 2
\* calls the threads make in one run, all threads together
MaxCalls == 2

Threads == 1..NumThreads

Min(a, b) == IF a < b THEN a ELSE b

\* Python's None where an int is optional (top_k, the page of a document)
None == -1

\* a page value int() cannot convert
BadPage == -2

(***************************************************************************)
(* Strings.                                                                 *)
(***************************************************************************)
RECURSIVE LStrip(_)
LStrip(s) ==
    IF s # <<>> /\ Head(s) = " " THEN LStrip(Tail(s)) ELSE s

RECURSIVE RStrip(_)
RStrip(s) ==
    IF s # <<>> /\ s[Len(s)] = " " THEN RStrip(SubSeq(s, 1, Len(s) - 1)) ELSE s

\* str.strip()
Strip(s) == RStrip(LStrip(s))

\* the values settings.GROQ_API_KEY takes in the model: absent, blank, set
KeyValues == {<<>>, <<" ">>, <<"g", "k">>}
BlankKeys == {<<>>, <<" ">>}

\* chain.py: `not settings.GROQ_API_KEY or not settings.GROQ_API_KEY.strip()`
KeyMissing_NoStrip(key) == key = <<>>

KeyMissing(key) == key = <<>> \/ Strip(key) = <<>>

(***************************************************************************)
(* The Chroma collection "university_docs" and the handles opened on it.    *)
(* chroma.gen is the generation of the collection that currently exists     *)
(* under COLLECTION_NAME (0: none exists), chroma.docs its entries in       *)
(* insertion order, chroma.handle[i] the generation instance i holds        *)
(* (0: the instance's collection reference is None).                        *)
(***************************************************************************)
ChromaInit == [gen |-> 0, gens |-> 0, docs |-> <<>>, handle |-> <<>>]

\* Chroma(collection_name=..., persist_directory=...): get-or-create the collection
Chroma(c) ==
    IF c.gen = 0
    THEN [c EXCEPT !.gens = @ + 1, !.gen = c.gens + 1, !.docs = <<>>,
                   !.handle = Append(@, c.gens + 1)]
    ELSE [c EXCEPT !.handle = Append(@, c.gen)]

\* an instance can read and write only while it references the live collection
HandleLive(c, i) == i \in DOMAIN c.handle /\ c.handle[i] # 0 /\ c.handle[i] = c.gen

\* vectorstore.delete_collection(): raises when the instance has no collection
\* or the collection no longer exists; otherwise drops it and its own reference
delete_collection_raises(c, i) == c.handle[i] = 0 \/ c.gen = 0

delete_collection(c, i) ==
    IF delete_collection_raises(c, i) THEN c
    ELSE [c EXCEPT !.gen = 0, !.docs = <<>>, !.handle[i] = 0]

\* add_documents keyed by content: a chunk the collection already holds is not added
add_documents_Dedup(c, i, chunks) ==
    IF HandleLive(c, i)
    THEN [c EXCEPT !.docs = @ \o SelectSeq(chunks, LAMBDA ch : \A j \in DOMAIN c.docs : c.docs[j] # ch)]
    ELSE c

\* vectorstore.add_documents(chunks)
add_documents(c, i, chunks) ==
    IF HandleLive(c, i) THEN [c EXCEPT !.docs = @ \o chunks] ELSE c

\* vectorstore.similarity_search_with_score(query, k=k): the k nearest entries;
\* DummyEmbeddings maps every text to the zero vector, so every distance is 0
\* and the ranking is the insertion order
similarity_search_with_score(c, k) == SubSeq(c.docs, 1, Min(k, Len(c.docs)))


(***************************************************************************)
(* Request threads.  FastAPI runs the sync parts of the handlers in worker  *)
(* threads, and CPython may switch threads between any two bytecodes, so    *)
(* every read and write of a module global is a step of its own.            *)
(***************************************************************************)
ThreadOps == {"invoke_rag", "ingest_file", "ingest_directory", "search", "reset"}

\* settings.TOP_K (config.py default)
TOP_K == 4

\* the chunk a thread's ingest call adds (loading and splitting are modelled
\* in full by the sequential store specification below)
ThreadChunk == [source |-> "d/a.md", filename |-> "a.md", page |-> None, start |-> 0, len |-> 500]

\* no invoke_rag call under way
NoRag == [phase |-> "none"]

\* settings of api/chat.py and rag/chain.py, in seconds
RAG_TIMEOUT == 60
LLM_TIMEOUT == 30
\* attempts the Groq client makes before it gives up on a call that times out:
\* ChatGroq is built without max_retries, so the first try and its two retries
LLM_ATTEMPTS == 3
\* chat.py: `get_recent_messages(..., limit=6)`
HISTORY_LIMIT == 6

\* no POST /chat request under way
NoReturn == [answer |-> "", sources |-> <<>>]

NoWorker ==
    [state |-> "none", ends |-> None, raises |-> "none", genStart |-> None, genEnd |-> None,
     returns |-> NoReturn]

NoResponse == [status |-> None, at |-> None, body |-> NoReturn]

NoWrites == [conversation |-> FALSE, chat_logs |-> 0, messages |-> 0, document_access |-> 0]

NoRequest == [message |-> <<>>, create_new |-> FALSE, conversation_id |-> "None"]

ChatIdle(s) ==
    [pc |-> "idle", settings |-> s, clock |-> 0, request |-> NoRequest, start |-> None,
     worker |-> NoWorker, raised |-> "none", response |-> NoResponse, wrote |-> NoWrites,
     stored |-> <<>>, read |-> FALSE, history |-> <<>>]

NoChat == ChatIdle([RAG_TIMEOUT |-> RAG_TIMEOUT, LLM_TIMEOUT |-> LLM_TIMEOUT])

\* no call of split_documents or get_embeddings under way
NoUnit == [phase |-> "none"]

\* no call made yet
NoCall == [op |-> "none", prev |-> "none", prevRaised |-> FALSE, arg |-> "none",
           raised |-> FALSE, result |-> "none"]

IdleFrame ==
    [pc |-> "idle", op |-> "none", vs |-> 0, chain |-> 0, retriever |-> 0,
     outcome |-> "none", worked |-> FALSE]

\* the call returns or raises: its locals are dropped, its outcome is kept
Finish(f, result) ==
    [f EXCEPT !.pc = "idle", !.op = "none", !.vs = 0, !.chain = 0, !.retriever = 0,
              !.outcome = result]

\* chain.py get_rag_chain: `_rag_chain is not None and _retriever is not None`
RagReady_Either(chain, retriever) == chain # 0 \/ retriever # 0

\* the cache test on the retriever alone
RagReady_RetrieverOnly(chain, retriever) == retriever # 0

RagReady(chain, retriever) == chain # 0 /\ retriever # 0

\* a thread enters one of the engine's entry points
Call(t, o) ==
    /\ thr[t].pc = "idle"
    /\ built.calls < MaxCalls
    /\ built' = [built EXCEPT !.calls = @ + 1]
    /\ thr' = [thr EXCEPT ![t] = [@ EXCEPT !.pc = IF o = "invoke_rag" THEN "rc_check" ELSE "gv_check",
                                           !.op = o, !.outcome = "none", !.worked = FALSE]]
    /\ UNCHANGED <<_cached_vectorstore, _rag_chain, _retriever, GROQ_API_KEY, chroma>>
    /\ UNCHANGED offThreads

\* get_rag_chain, the cache test
RcCheck(t) ==
    /\ thr[t].pc = "rc_check"
    /\ thr' = [thr EXCEPT ![t].pc = IF RagReady(_rag_chain, _retriever) THEN "rc_ret" ELSE "rc_key"]
    /\ UNCHANGED <<_cached_vectorstore, _rag_chain, _retriever, GROQ_API_KEY, chroma, built>>
    /\ UNCHANGED offThreads

\* get_rag_chain, the credential test: raise ValueError when the key is missing
RcKey(t) ==
    /\ thr[t].pc = "rc_key"
    /\ thr' = [thr EXCEPT ![t] = IF KeyMissing(GROQ_API_KEY)
                                 THEN Finish(@, "ValueError")
                                 ELSE [@ EXCEPT !.pc = "gv_check"]]
    /\ UNCHANGED <<_cached_vectorstore, _rag_chain, _retriever, GROQ_API_KEY, chroma, built>>
    /\ UNCHANGED offThreads

\* where get_vectorstore returns to
AfterGv(o) == IF o = "invoke_rag" THEN "rc_retr" ELSE "body"

\* get_vectorstore, the cache test
GvCheck(t) ==
    /\ thr[t].pc = "gv_check"
    /\ thr' = [thr EXCEPT ![t] = IF _cached_vectorstore # 0
                                 THEN [@ EXCEPT !.vs = _cached_vectorstore, !.pc = AfterGv(thr[t].op)]
                                 ELSE [@ EXCEPT !.pc = "gv_build"]]
    /\ UNCHANGED <<_cached_vectorstore, _rag_chain, _retriever, GROQ_API_KEY, chroma, built>>
    /\ UNCHANGED offThreads

\* get_vectorstore: get_embeddings() and Chroma(...), which may raise
GvBuild(t) ==
    /\ thr[t].pc = "gv_build"
    /\ built' = [built EXCEPT !.embeddings = @ + 1]
    /\ \E ok \in BOOLEAN :
          IF ok
          THEN /\ chroma' = Chroma(chroma)
               /\ thr' = [thr EXCEPT ![t] = [@ EXCEPT !.vs = Len(chroma'.handle),
                                                      !.worked = TRUE, !.pc = "gv_assign"]]
          ELSE /\ chroma' = chroma
               /\ thr' = [thr EXCEPT ![t] = Finish([@ EXCEPT !.worked = TRUE], "Exception")]
    /\ UNCHANGED <<_cached_vectorstore, _rag_chain, _retriever, GROQ_API_KEY>>
    /\ UNCHANGED offThreads

\* get_vectorstore: `_cached_vectorstore = Chroma(...)`, the store of the global
GvAssign(t) ==
    /\ thr[t].pc = "gv_assign"
    /\ _cached_vectorstore' = thr[t].vs
    /\ thr' = [thr EXCEPT ![t].pc = "gv_ret"]
    /\ UNCHANGED <<_rag_chain, _retriever, GROQ_API_KEY, chroma, built>>
    /\ UNCHANGED offThreads

\* get_vectorstore: `return _cached_vectorstore`, a fresh read of the global
GvRet(t) ==
    /\ thr[t].pc = "gv_ret"
    /\ thr' = [thr EXCEPT ![t] = [@ EXCEPT !.vs = _cached_vectorstore, !.pc = AfterGv(thr[t].op)]]
    /\ UNCHANGED <<_cached_vectorstore, _rag_chain, _retriever, GROQ_API_KEY, chroma, built>>
    /\ UNCHANGED offThreads

\* get_rag_chain: `_retriever = vectorstore.as_retriever(...)`
RcRetr(t) ==
    /\ thr[t].pc = "rc_retr"
    /\ _retriever' = thr[t].vs
    /\ thr' = [thr EXCEPT ![t] = [@ EXCEPT !.worked = TRUE, !.pc = "rc_llm"]]
    /\ UNCHANGED <<_cached_vectorstore, _rag_chain, GROQ_API_KEY, chroma, built>>
    /\ UNCHANGED offThreads

\* get_rag_chain: ChatGroq(...), which may raise, and the prompt | llm | parser chain
RcLlm(t) ==
    /\ thr[t].pc = "rc_llm"
    /\ \E ok \in BOOLEAN :
          IF ok
          THEN /\ built' = [built EXCEPT !.llm = @ + 1]
               /\ thr' = [thr EXCEPT ![t] = [@ EXCEPT !.chain = built'.llm,
                                                      !.worked = TRUE, !.pc = "rc_assign"]]
          ELSE /\ built' = built
               /\ thr' = [thr EXCEPT ![t] = Finish([@ EXCEPT !.worked = TRUE], "Exception")]
    /\ UNCHANGED <<_cached_vectorstore, _rag_chain, _retriever, GROQ_API_KEY, chroma>>
    /\ UNCHANGED offThreads

\* get_rag_chain: `_rag_chain = (...)`, the store of the global
RcAssign(t) ==
    /\ thr[t].pc = "rc_assign"
    /\ _rag_chain' = thr[t].chain
    /\ thr' = [thr EXCEPT ![t].pc = "rc_ret"]
    /\ UNCHANGED <<_cached_vectorstore, _retriever, GROQ_API_KEY, chroma, built>>
    /\ UNCHANGED offThreads

\* get_rag_chain: `return _rag_chain, _retriever`
RcRet(t) ==
    /\ thr[t].pc = "rc_ret"
    /\ thr' = [thr EXCEPT ![t] = [@ EXCEPT !.chain = _rag_chain, !.retriever = _retriever,
                                           !.pc = "iv_retrieve"]]
    /\ UNCHANGED <<_cached_vectorstore, _rag_chain, _retriever, GROQ_API_KEY, chroma, built>>
    /\ UNCHANGED offThreads

\* invoke_rag: retrieval; an exception of the retriever is caught and leaves no docs
IvRetrieve(t) ==
    /\ thr[t].pc = "iv_retrieve"
    /\ thr' = [thr EXCEPT ![t] = [@ EXCEPT !.worked = TRUE, !.pc = "iv_generate"]]
    /\ UNCHANGED <<_cached_vectorstore, _rag_chain, _retriever, GROQ_API_KEY, chroma, built>>
    /\ UNCHANGED offThreads

\* invoke_rag: chain.invoke(...), which returns the answer or raises
IvGenerate(t) ==
    /\ thr[t].pc = "iv_generate"
    /\ \E ok \in BOOLEAN :
          thr' = [thr EXCEPT ![t] = Finish([@ EXCEPT !.worked = TRUE],
                                           IF ok THEN "ok" ELSE "Exception")]
    /\ UNCHANGED <<_cached_vectorstore, _rag_chain, _retriever, GROQ_API_KEY, chroma, built>>
    /\ UNCHANGED offThreads

\* the body of ingest_file / ingest_directory after get_vectorstore()
ThreadIngest(t) ==
    /\ thr[t].pc = "body"
    /\ thr[t].op \in {"ingest_file", "ingest_directory"}
    /\ chroma' = add_documents(chroma, thr[t].vs, <<ThreadChunk>>)
    /\ thr' = [thr EXCEPT ![t] = Finish(@, IF HandleLive(chroma, thr[t].vs) THEN "ok" ELSE "Exception")]
    /\ UNCHANGED <<_cached_vectorstore, _rag_chain, _retriever, GROQ_API_KEY, built>>
    /\ UNCHANGED offThreads

\* the body of search after get_vectorstore()
ThreadSearch(t) ==
    /\ thr[t].pc = "body"
    /\ thr[t].op = "search"
    /\ thr' = [thr EXCEPT ![t] = Finish(@, IF HandleLive(chroma, thr[t].vs) THEN "ok" ELSE "Exception")]
    /\ UNCHANGED <<_cached_vectorstore, _rag_chain, _retriever, GROQ_API_KEY, chroma, built>>
    /\ UNCHANGED offThreads

\* the body of reset_index after get_vectorstore(): clear_collection(vs)
ThreadReset(t) ==
    /\ thr[t].pc = "body"
    /\ thr[t].op = "reset"
    /\ chroma' = delete_collection(chroma, thr[t].vs)
    /\ thr' = [thr EXCEPT ![t] = Finish(@, IF delete_collection_raises(chroma, thr[t].vs)
                                           THEN "Exception" ELSE "ok")]
    /\ UNCHANGED <<_cached_vectorstore, _rag_chain, _retriever, GROQ_API_KEY, built>>
    /\ UNCHANGED offThreads

\* the operator fixes the configuration: settings.GROQ_API_KEY gets a key
SetGroqKey ==
    /\ GROQ_API_KEY \in BlankKeys
    /\ GROQ_API_KEY' \in KeyValues \ BlankKeys
    /\ UNCHANGED <<_cached_vectorstore, _rag_chain, _retriever, chroma, built, thr>>
    /\ UNCHANGED offThreads

InitThreads ==
    /\ _cached_vectorstore = 0
    /\ _rag_chain = 0
    /\ _retriever = 0
    /\ GROQ_API_KEY \in KeyValues
    /\ chroma = ChromaInit
    /\ built = [embeddings |-> 0, llm |-> 0, calls |-> 0]
    /\ thr = [t \in Threads |-> IdleFrame]
    /\ st = NoCall
    /\ rag = NoRag
    /\ chat = NoChat
    /\ unit = NoUnit

NextThreads ==
    \/ \E t \in Threads, o \in ThreadOps : Call(t, o)
    \/ \E t \in Threads : RcCheck(t)
    \/ \E t \in Threads : RcKey(t)
    \/ \E t \in Threads : GvCheck(t)
    \/ \E t \in Threads : GvBuild(t)
    \/ \E t \in Threads : GvAssign(t)
    \/ \E t \in Threads : GvRet(t)
    \/ \E t \in Threads : RcRetr(t)
    \/ \E t \in Threads : RcLlm(t)
    \/ \E t \in Threads : RcAssign(t)
    \/ \E t \in Threads : RcRet(t)
    \/ \E t \in Threads : IvRetrieve(t)
    \/ \E t \in Threads : IvGenerate(t)
    \/ \E t \in Threads : ThreadIngest(t)
    \/ \E t \in Threads : ThreadSearch(t)
    \/ \E t \in Threads : ThreadReset(t)
    \/ SetGroqKey

SpecThreads == InitThreads /\ [][NextThreads]_vars

(***************************************************************************)
(* Properties of lazy initialization (SpecThreads).                         *)
(***************************************************************************)

\* C1: however many threads make their first call concurrently, at most one
\* vector store (with its embedding provider) and at most one LLM chain are
\* ever constructed in the process.
C1_ConstructedOnce == Len(chroma.handle) <= 1 /\ built.llm <= 1

\* the program counters inside get_rag_chain (get_vectorstore included)
InitPcs == {"rc_check", "rc_key", "gv_check", "gv_build", "gv_assign", "gv_ret",
            "rc_retr", "rc_llm", "rc_assign", "rc_ret"}

\* thread t's get_rag_chain raises in this step
InitFails(t) ==
    /\ thr[t].op = "invoke_rag"
    /\ thr[t].pc \in InitPcs
    /\ thr'[t].pc = "idle"

\* C7: a failed initialization caches nothing that a later call could get
\* back: the failing step leaves _rag_chain as it was, and a call returns the
\* cached pair without constructing only when both components are set and the
\* chain is one that was constructed successfully; otherwise it goes through
\* the credential test and the whole construction again.
C7_FailedInitRetries ==
    [][\A t \in Threads :
          /\ InitFails(t) => _rag_chain' = _rag_chain
          /\ (thr[t].pc = "rc_check" /\ thr'[t].pc = "rc_ret")
                => (_rag_chain \in 1..built.llm /\ _retriever \in 1..Len(chroma.handle))
          /\ (thr[t].pc = "rc_check" /\ thr'[t].pc # "rc_check" /\ (_rag_chain = 0 \/ _retriever = 0))
                => thr'[t].pc = "rc_key"]_vars

\* C7 witness: a call failed on the missing key, the key was then set, and a
\* later call built the chain and got both components back.
C7_Witness ==
    \E t, u \in Threads :
        /\ thr[t].outcome = "ValueError"
        /\ thr[u].pc = "iv_retrieve"
        /\ thr[u].worked
        /\ thr[u].chain # 0 /\ thr[u].retriever # 0

\* C8: when invoke reaches the credential test with the key absent or blank,
\* it raises the configuration error there, having constructed, retrieved and
\* generated nothing.
C8_FailFast ==
    [][\A t \in Threads :
          (thr[t].pc = "rc_key" /\ thr'[t] # thr[t] /\ GROQ_API_KEY \in BlankKeys)
             => /\ thr'[t].pc = "idle"
                /\ thr'[t].outcome = "ValueError"
                /\ ~thr'[t].worked
                /\ chroma' = chroma
                /\ built' = built
                /\ <<_cached_vectorstore, _rag_chain, _retriever>>' =
                      <<_cached_vectorstore, _rag_chain, _retriever>>]_vars

\* C8 witness: a call has failed on a blank (not merely absent) key with the
\* chain not built.
C8_Witness ==
    \E t \in Threads :
        /\ thr[t].outcome = "ValueError"
        /\ GROQ_API_KEY = <<" ">>
        /\ _rag_chain = 0

(***************************************************************************)
(* Loading and chunking.  A file is its path, its name, its extension, and  *)
(* what its loader finds in it: a parse failure, or the text length of each *)
(* document it yields (one per PDF page, exactly one for text and DOCX).    *)
(* Texts here hold no separator, so the recursive splitter cuts them at     *)
(* character level; a text is then fully described by its length and a      *)
(* chunk by its offset and length.                                          *)
(***************************************************************************)

\* settings.CHUNK_SIZE and settings.CHUNK_OVERLAP (config.py defaults)
CHUNK_SIZE == 800
CHUNK_OVERLAP == 200

\* the files of the model
FileSeq ==
    << [path |-> "d/a.md",  name |-> "a.md",  ext |-> ".md",  fault |-> FALSE, pages |-> <<500>>],
       [path |-> "d/b.PDF", name |-> "b.PDF", ext |-> ".PDF", fault |-> TRUE,  pages |-> <<>>],
       [path |-> "d/c.pdf", name |-> "c.pdf", ext |-> ".pdf", fault |-> FALSE, pages |-> <<2000, 0>>],
       [path |-> "d/e.pdf", name |-> "e.pdf", ext |-> ".pdf", fault |-> FALSE, pages |-> <<>>],
       [path |-> "d/n.txt", name |-> "n.txt", ext |-> ".txt", fault |-> FALSE, pages |-> <<0>>],
       [path |-> "d/x.csv", name |-> "x.csv", ext |-> ".csv", fault |-> FALSE, pages |-> <<100>>] >>

FileIds == DOMAIN FileSeq

\* str.lower() on the extensions of the model
Lower(ext) == IF ext = ".PDF" THEN ".pdf" ELSE ext

\* loaders.py get_loader_for_path: the extensions that have a loader
LoaderSuffixes == {".pdf", ".docx", ".doc", ".txt", ".md"}

\* loaders.py get_loader_for_path: the loader's kind, "None" when there is none
get_loader_for_path(f) ==
    IF Lower(f.ext) \notin LoaderSuffixes THEN "None"
    ELSE IF Lower(f.ext) = ".pdf" THEN "PyPDFLoader"
    ELSE IF Lower(f.ext) \in {".docx", ".doc"} THEN "Docx2txtLoader"
    ELSE "TextLoader"

\* load_document yielding no document where it should raise
load_document_NoRaise(f) ==
    IF get_loader_for_path(f) = "None" \/ f.fault THEN [raised |-> FALSE, docs |-> <<>>]
    ELSE [raised |-> FALSE,
          docs |-> [i \in 1..Len(f.pages) |->
                      [source |-> f.path, filename |-> f.name,
                       page |-> IF get_loader_for_path(f) = "PyPDFLoader" THEN i - 1 ELSE None,
                       len |-> f.pages[i]]]]

\* loaders.py load_document: ValueError without a loader, the loader's own
\* exception on a parse failure, else the documents with source and filename set
load_document(f) ==
    IF get_loader_for_path(f) = "None" THEN [raised |-> TRUE, docs |-> <<>>]
    ELSE IF f.fault THEN [raised |-> TRUE, docs |-> <<>>]
    ELSE [raised |-> FALSE,
          docs |-> [i \in 1..Len(f.pages) |->
                      [source |-> f.path, filename |-> f.name,
                       page |-> IF get_loader_for_path(f) = "PyPDFLoader" THEN i - 1 ELSE None,
                       len |-> f.pages[i]]]]

\* loaders.py load_documents_from_directory without its try/except
RECURSIVE LoadDirectory_NoCatch(_, _)
LoadDirectory_NoCatch(D, i) ==
    IF i > Len(FileSeq) THEN [raised |-> FALSE, docs |-> <<>>]
    ELSE IF i \in D /\ Lower(FileSeq[i].ext) \in LoaderSuffixes
         THEN LET one == load_document(FileSeq[i])
                  rest == LoadDirectory_NoCatch(D, i + 1)
              IN  [raised |-> one.raised \/ rest.raised, docs |-> one.docs \o rest.docs]
         ELSE LoadDirectory_NoCatch(D, i + 1)

\* loaders.py load_documents_from_directory: the files of D from the i-th on,
\* in walk order; a file whose load raises is reported and skipped
RECURSIVE LoadDirectory(_, _)
LoadDirectory(D, i) ==
    IF i > Len(FileSeq) THEN [raised |-> FALSE, docs |-> <<>>]
    ELSE IF i \in D /\ Lower(FileSeq[i].ext) \in LoaderSuffixes
         THEN LET one == load_document(FileSeq[i])
                  rest == LoadDirectory(D, i + 1)
              IN  [raised |-> rest.raised,
                   docs |-> (IF one.raised THEN <<>> ELSE one.docs) \o rest.docs]
         ELSE LoadDirectory(D, i + 1)

load_documents_from_directory(D) == LoadDirectory(D, 1)

\* the splitter on a separator-free text of length L read from offset `from`:
\* windows of CHUNK_SIZE characters, each starting CHUNK_OVERLAP before the
\* end of its predecessor
RECURSIVE Windows(_, _)
Windows(from, L) ==
    IF L - from <= CHUNK_SIZE THEN << [start |-> from, len |-> L - from] >>
    ELSE << [start |-> from, len |-> CHUNK_SIZE] >> \o Windows(from + CHUNK_SIZE - CHUNK_OVERLAP, L)

\* the chunks of one document, its metadata copied onto each
SplitOne(doc) ==
    IF doc.len = 0 THEN <<>>
    ELSE LET w == Windows(0, doc.len)
         IN  [i \in 1..Len(w) |->
                [source |-> doc.source, filename |-> doc.filename, page |-> doc.page,
                 start |-> w[i].start, len |-> w[i].len]]

\* chunking.py split_documents
RECURSIVE split_documents(_)
split_documents(docs) ==
    IF docs = <<>> THEN <<>> ELSE SplitOne(Head(docs)) \o split_documents(Tail(docs))

(***************************************************************************)
(* The sequential caller: one call of ingest_file, ingest_directory, search *)
(* or reset_index at a time, each run to its end.                           *)
(***************************************************************************)

\* entries the collection holds at most in a run
MaxEntries == 6
\* the largest top_k a search asks for
MaxK == 3

Queries == {"exam schedule", "deadline"}

\* ingestion.py search: the k used when top_k is None or 0 (`top_k or 4`)
DEFAULT_K == 4

\* get_vectorstore() called by a single thread: the cached instance, or a new
\* one that then is the cached one
GetVs ==
    IF _cached_vectorstore # 0
    THEN [vs |-> _cached_vectorstore, chroma |-> chroma, built |-> built]
    ELSE [vs |-> Len(chroma.handle) + 1, chroma |-> Chroma(chroma),
          built |-> [built EXCEPT !.embeddings = @ + 1]]

\* the record of a finished call
Done(o, a, r, res) ==
    [op |-> o, prev |-> st.op, prevRaised |-> st.raised, arg |-> a, raised |-> r, result |-> res]

\* ingestion.py ingest_file; emptyRaises: whether the store rejects an empty batch
StIngestFile(i, emptyRaises) ==
    LET ld == load_document(FileSeq[i])
        chunks == split_documents(ld.docs)
        g == GetVs
        addRaises == ~HandleLive(g.chroma, g.vs) \/ (chunks = <<>> /\ emptyRaises)
    IN  /\ Len(chroma.docs) + Len(chunks) <= MaxEntries
        /\ emptyRaises => (~ld.raised /\ chunks = <<>>)
        /\ IF ld.raised
           THEN /\ st' = Done("ingest_file", i, TRUE, 0)
                /\ UNCHANGED <<_cached_vectorstore, chroma, built>>
           ELSE /\ _cached_vectorstore' = g.vs
                /\ built' = g.built
                /\ chroma' = IF addRaises THEN g.chroma ELSE add_documents(g.chroma, g.vs, chunks)
                /\ st' = Done("ingest_file", i, addRaises, Len(chunks))
        /\ UNCHANGED offStore

\* ingest_directory's `{doc.metadata.get("source", "") for doc in docs}`
SourcesOf(docs) == {docs[j].source : j \in DOMAIN docs}

\* ingestion.py ingest_directory on the directory holding the files D
StIngestDirectory(D, emptyRaises) ==
    LET ld == load_documents_from_directory(D)
        chunks == split_documents(ld.docs)
        g == GetVs
        addRaises == ~HandleLive(g.chroma, g.vs) \/ (chunks = <<>> /\ emptyRaises)
    IN  /\ Len(chroma.docs) + Len(chunks) <= MaxEntries
        /\ emptyRaises => (~ld.raised /\ ld.docs # <<>> /\ chunks = <<>>)
        /\ IF ld.raised
           THEN /\ st' = Done("ingest_directory", D, TRUE, [files |-> 0, chunks |-> 0])
                /\ UNCHANGED <<_cached_vectorstore, chroma, built>>
           ELSE IF ld.docs = <<>>
           THEN /\ st' = Done("ingest_directory", D, FALSE, [files |-> 0, chunks |-> 0])
                /\ UNCHANGED <<_cached_vectorstore, chroma, built>>
           ELSE /\ _cached_vectorstore' = g.vs
                /\ built' = g.built
                /\ chroma' = IF addRaises THEN g.chroma ELSE add_documents(g.chroma, g.vs, chunks)
                /\ st' = Done("ingest_directory", D, addRaises,
                              [files |-> Cardinality(SourcesOf(ld.docs)), chunks |-> Len(chunks)])
        /\ UNCHANGED offStore

\* ingestion.py search: `k=top_k or 4`
EffectiveK(top_k) == IF top_k = None \/ top_k = 0 THEN DEFAULT_K ELSE top_k

\* ingestion.py search(query, top_k)
StSearch(q, top_k) ==
    LET g == GetVs
        live == HandleLive(g.chroma, g.vs)
    IN  /\ _cached_vectorstore' = g.vs
        /\ built' = g.built
        /\ chroma' = g.chroma
        /\ st' = Done("search", [query |-> q, top_k |-> top_k], ~live,
                      IF live THEN similarity_search_with_score(g.chroma, EffectiveK(top_k))
                      ELSE <<>>)
        /\ UNCHANGED offStore

\* documents.py reset_index: clear_collection(get_vectorstore())
StReset ==
    LET g == GetVs
    IN  /\ _cached_vectorstore' = g.vs
        /\ built' = g.built
        /\ chroma' = delete_collection(g.chroma, g.vs)
        /\ st' = Done("reset", "none", delete_collection_raises(g.chroma, g.vs), "none")
        /\ UNCHANGED offStore

InitStore ==
    /\ _cached_vectorstore = 0
    /\ _rag_chain = 0
    /\ _retriever = 0
    /\ GROQ_API_KEY = <<"g", "k">>
    /\ chroma = ChromaInit
    /\ built = [embeddings |-> 0, llm |-> 0, calls |-> 0]
    /\ thr = [t \in Threads |-> IdleFrame]
    /\ st = NoCall
    /\ rag = NoRag
    /\ chat = NoChat
    /\ unit = NoUnit

NextStore ==
    \/ \E i \in FileIds, e \in BOOLEAN : StIngestFile(i, e)
    \/ \E D \in SUBSET FileIds, e \in BOOLEAN : StIngestDirectory(D, e)
    \/ \E q \in Queries, k \in {None} \cup (0..MaxK) : StSearch(q, k)
    \/ StReset

SpecStore == InitStore /\ [][NextStore]_vars

(***************************************************************************)
(* Properties of the store operations (SpecStore).                          *)
(***************************************************************************)

\* C4: a search that directly follows a successful reset returns the empty
\* list and does not raise, whatever was ingested before.
C4_ResetThenSearchEmpty ==
    (st.op = "search" /\ st.prev = "reset" /\ ~st.prevRaised)
        => (~st.raised /\ st.result = <<>>)

\* C5: a search asked for top_k = k results returns at most k of them, k = 0
\* included.
C5_AtMostK ==
    (st.op = "search" /\ ~st.raised /\ st.arg.top_k # None)
        => Len(st.result) <= st.arg.top_k

\* the files of D the directory walk tries to load, those that load, and
\* those that load into at least one document
Attempted(D) == {i \in D : Lower(FileSeq[i].ext) \in LoaderSuffixes}
Loaded(D) == {i \in Attempted(D) : ~FileSeq[i].fault}
Yielding(D) == {i \in Loaded(D) : FileSeq[i].pages # <<>>}

\* the number of chunks of a text of length L, by the closed formula
NumChunks(L) ==
    IF L = 0 THEN 0
    ELSE IF L <= CHUNK_SIZE THEN 1
    ELSE 1 + ((L - CHUNK_SIZE) + (CHUNK_SIZE - CHUNK_OVERLAP) - 1) \div (CHUNK_SIZE - CHUNK_OVERLAP)

RECURSIVE PagesChunks(_)
PagesChunks(pages) ==
    IF pages = <<>> THEN 0 ELSE NumChunks(Head(pages)) + PagesChunks(Tail(pages))

RECURSIVE FilesChunks(_)
FilesChunks(F) ==
    IF F = {} THEN 0
    ELSE LET i == CHOOSE x \in F : TRUE
         IN  PagesChunks(FileSeq[i].pages) + FilesChunks(F \ {i})

\* C10 as stated: ingest_directory's "files" is the number of files that
\* loaded successfully.
C10_FilesCountsLoaded ==
    (st.op = "ingest_directory" /\ ~st.raised)
        => st.result.files = Cardinality(Loaded(st.arg))

\* C10 as amended: ingest_directory never raises because of a file that fails
\* to load (it raises only when the store itself rejects the write of the
\* loaded files); the chunks of every file that loads, and of no other, are
\* added; "files" is the number of files that loaded into at least one
\* document and "chunks" the number of chunks added.
C10_SkipsFailingFiles ==
    [][(st'.op = "ingest_directory" /\ vars' # vars) =>
         LET D == st'.arg
             n == FilesChunks(Loaded(D))
             before == GetVs.chroma
             added == SubSeq(chroma'.docs, Len(before.docs) + 1, Len(chroma'.docs))
         IN  /\ st'.raised => (Yielding(D) # {} /\ (~HandleLive(before, GetVs.vs) \/ n = 0))
             /\ ~st'.raised =>
                  /\ st'.result = [files |-> Cardinality(Yielding(D)), chunks |-> n]
                  /\ Yielding(D) = {} => chroma' = chroma
                  /\ Yielding(D) # {} =>
                       /\ Len(chroma'.docs) = Len(before.docs) + n
                       /\ SubSeq(chroma'.docs, 1, Len(before.docs)) = before.docs
                       /\ {added[j].source : j \in DOMAIN added} =
                             {FileSeq[i].path : i \in {x \in Loaded(D) : PagesChunks(FileSeq[x].pages) > 0}}
       ]_vars

\* C10 witness: the directory held the valid a.md and the corrupt b.PDF, and
\* the call returned files = 1 with a.md's chunk added.
C10_Witness ==
    /\ st.op = "ingest_directory"
    /\ st.arg = {1, 2}
    /\ ~st.raised
    /\ st.result = [files |-> 1, chunks |-> 1]
    /\ chroma.docs # <<>>
    /\ chroma.docs[Len(chroma.docs)].source = "d/a.md"

(***************************************************************************)
(* invoke_rag on a ready engine.  A string is a sequence of tokens; a text  *)
(* body (a chunk's page_content, a message's content) is one token, the     *)
(* record of its identity and length, so that slicing it is visible.        *)
(***************************************************************************)

\* documents the retriever returns at most in one call
MaxDocs == 4
\* messages of history passed at most in one call
MaxHistory == 1

\* chain.py invoke_rag: `d.page_content[:300]`
SOURCE_PREVIEW == 300
\* chain.py _format_conversation_history: `msg.content[:200]`
HISTORY_PREVIEW == 200

\* text[:n]
Slice(text, n) == [id |-> text.id, len |-> Min(text.len, n)]

\* the documents a retrieval may return; filename <<>> / source <<>>: not set
DocChoices ==
    { [filename |-> <<"A">>, source |-> <<"d", "A">>, page |-> None,    content |-> [id |-> 1, len |-> 10]],
      [filename |-> <<"B">>, source |-> <<"d", "B">>, page |-> None,    content |-> [id |-> 2, len |-> 400]],
      [filename |-> <<>>,    source |-> <<"e", "A">>, page |-> None,    content |-> [id |-> 3, len |-> 5]],
      [filename |-> <<"C">>, source |-> <<"d", "C">>, page |-> 0,       content |-> [id |-> 4, len |-> 300]],
      [filename |-> <<"C">>, source |-> <<"d", "C">>, page |-> 1,       content |-> [id |-> 5, len |-> 301]],
      [filename |-> <<"C">>, source |-> <<"d", "C">>, page |-> BadPage, content |-> [id |-> 6, len |-> 7]],
      [filename |-> <<>>,    source |-> <<>>,         page |-> None,    content |-> [id |-> 7, len |-> 0]] }

\* the messages a history may hold
MessageChoices ==
    { [role |-> "user", content |-> [id |-> 11, len |-> 250]],
      [role |-> "assistant", content |-> [id |-> 12, len |-> 40]] }

\* all sequences over S of length at most n
SeqsUpTo(S, n) == UNION {[1..k -> S] : k \in 0..n}

\* the filename a document is cited by: metadata "filename", else the name of
\* metadata "source", else "document"
DocName(d) ==
    IF d.filename # <<>> THEN d.filename
    ELSE IF d.source # <<>> THEN <<d.source[Len(d.source)]>>
    ELSE <<"document">>

\* chain.py invoke_rag: `f"{filename} (p.{int(page) + 1})" if page is not None else str(filename)`
Label(d) ==
    IF d.page # None THEN DocName(d) \o <<" (p.", d.page + 1, ")">> ELSE DocName(d)

\* int(page) raises
PageRaises(d) == d.page = BadPage

\* chain.py format_docs: one part per document
Part(d) ==
    <<"[Source: ">> \o DocName(d)
        \o (IF d.page # None THEN <<" p.", d.page + 1>> ELSE <<>>)
        \o <<"]\n", d.content>>

RECURSIVE JoinParts(_)
JoinParts(docs) ==
    IF docs = <<>> THEN <<>>
    ELSE IF Len(docs) = 1 THEN Part(docs[1])
    ELSE Part(docs[1]) \o <<"\n\n---\n\n">> \o JoinParts(Tail(docs))

\* chain.py format_docs
format_docs(docs) ==
    [raised |-> \E j \in DOMAIN docs : PageRaises(docs[j]), text |-> JoinParts(docs)]

\* the loop of invoke_rag that appends every document, seen or not
RECURSIVE SourceLoop_NoDedup(_, _, _, _, _)
SourceLoop_NoDedup(docs, j, seen, sources, failAt) ==
    IF j > Len(docs) THEN [raised |-> FALSE, sources |-> sources]
    ELSE IF failAt = j \/ PageRaises(docs[j]) THEN [raised |-> TRUE, sources |-> sources]
    ELSE SourceLoop_NoDedup(docs, j + 1, seen \cup {Label(docs[j])},
                    Append(sources, <<Slice(docs[j].content, SOURCE_PREVIEW), Label(docs[j])>>), failAt)

\* chain.py invoke_rag, the loop over docs from the j-th on: skip a label
\* already seen, else record it with the preview of its chunk; failAt is the
\* document at which an exception is raised (0: none)
RECURSIVE SourceLoop(_, _, _, _, _)
SourceLoop(docs, j, seen, sources, failAt) ==
    IF j > Len(docs) THEN [raised |-> FALSE, sources |-> sources]
    ELSE IF failAt = j \/ PageRaises(docs[j]) THEN [raised |-> TRUE, sources |-> sources]
    ELSE IF Label(docs[j]) \in seen THEN SourceLoop(docs, j + 1, seen, sources, failAt)
    ELSE SourceLoop(docs, j + 1, seen \cup {Label(docs[j])},
                    Append(sources, <<Slice(docs[j].content, SOURCE_PREVIEW), Label(docs[j])>>), failAt)

\* an except clause that only empties the context
ExceptHandler_KeepSources(context, sources) == [context |-> <<>>, sources |-> sources]

\* an except clause that only empties the sources
ExceptHandler_KeepContext(context, sources) == [context |-> context, sources |-> <<>>]

\* chain.py invoke_rag: `except Exception: context = ""; sources = []`
ExceptHandler(context, sources) == [context |-> <<>>, sources |-> <<>>]

\* the try block citing a placeholder when nothing was retrieved
Retrieve_Placeholder(env) ==
    IF env.retrieveRaises THEN ExceptHandler(<<>>, <<>>)
    ELSE IF env.docs = <<>>
    THEN [context |-> <<>>, sources |-> << <<[id |-> 0, len |-> 0], <<"document">>>> >>]
    ELSE IF format_docs(env.docs).raised THEN ExceptHandler(<<>>, <<>>)
    ELSE LET loop == SourceLoop(env.docs, 1, {}, <<>>, env.failAt)
         IN  IF loop.raised THEN ExceptHandler(format_docs(env.docs).text, loop.sources)
             ELSE [context |-> format_docs(env.docs).text, sources |-> loop.sources]

\* chain.py invoke_rag, the try block: retrieval, the context and the sources
Retrieve(env) ==
    IF env.retrieveRaises THEN ExceptHandler(<<>>, <<>>)
    ELSE IF env.docs = <<>> THEN [context |-> <<>>, sources |-> <<>>]
    ELSE IF format_docs(env.docs).raised THEN ExceptHandler(<<>>, <<>>)
    ELSE LET loop == SourceLoop(env.docs, 1, {}, <<>>, env.failAt)
         IN  IF loop.raised THEN ExceptHandler(format_docs(env.docs).text, loop.sources)
             ELSE [context |-> format_docs(env.docs).text, sources |-> loop.sources]

\* a history line with the whole content
HistoryLine_NoCut(msg) ==
    <<IF msg.role = "user" THEN "Etudiant" ELSE "Assistant", ": ", msg.content>>

\* chain.py _format_conversation_history
HistoryLine(msg) ==
    <<IF msg.role = "user" THEN "Etudiant" ELSE "Assistant", ": ", Slice(msg.content, HISTORY_PREVIEW)>>

_format_conversation_history(messages) ==
    IF messages = <<>> THEN <<>>
    ELSE <<"Historique recent de la conversation:">>
            \o [i \in 1..Len(messages) |-> HistoryLine(messages[i])] \o <<"\n\n">>

\* chain.py invoke_rag(question, recent_messages) with the engine ready
InvokeRag ==
    /\ rag.phase = "called"
    /\ LET r == Retrieve(rag.env)
           prompt == [context |-> r.context, question |-> rag.question,
                      conversation_history |-> _format_conversation_history(rag.messages)]
       IN  rag' = [rag EXCEPT !.phase = "done",
                              !.prompt = prompt,
                              !.raised = rag.env.generateRaises,
                              !.answer = IF rag.env.generateRaises THEN "none"
                                         ELSE [grounded |-> r.context # <<>>],
                              !.sources = IF rag.env.generateRaises THEN <<>> ELSE r.sources]
    /\ UNCHANGED offRag

\* the caller makes its next call
RagReturn ==
    /\ rag.phase = "done"
    /\ rag' = NoRag
    /\ UNCHANGED offRag

\* a call of invoke_rag and what its collaborators will do in it: whether the
\* retriever raises, the documents it returns otherwise, whether an exception
\* is raised while the last of them is turned into a source (the loop never
\* looks past the document it is at), and whether generation raises
RagCall ==
    /\ rag.phase = "none"
    /\ \E docs \in SeqsUpTo(DocChoices, MaxDocs), messages \in SeqsUpTo(MessageChoices, MaxHistory),
          rr \in BOOLEAN, gr \in BOOLEAN :
          \E failAt \in {0, Len(docs)} :
             /\ rr => docs = <<>>
             /\ rag' = [phase |-> "called", question |-> "q", messages |-> messages,
                        env |-> [retrieveRaises |-> rr, docs |-> docs, failAt |-> failAt,
                                 generateRaises |-> gr],
                        prompt |-> "none", raised |-> FALSE, answer |-> "none", sources |-> <<>>]
    /\ UNCHANGED offRag

\* the engine is ready: vector store, retriever and chain are built
InitRag ==
    /\ _cached_vectorstore = 1
    /\ _rag_chain = 1
    /\ _retriever = 1
    /\ GROQ_API_KEY = <<"g", "k">>
    /\ chroma = Chroma(ChromaInit)
    /\ built = [embeddings |-> 1, llm |-> 1, calls |-> 0]
    /\ thr = [t \in Threads |-> IdleFrame]
    /\ st = NoCall
    /\ rag = NoRag
    /\ chat = NoChat
    /\ unit = NoUnit

NextRag ==
    \/ RagCall
    \/ InvokeRag
    \/ RagReturn

SpecRag == InitRag /\ [][NextRag]_vars

(***************************************************************************)
(* Properties of invoke_rag (SpecRag).                                      *)
(***************************************************************************)

\* an exception is raised inside invoke_rag's try block: by the retriever, by
\* format_docs, or while the source list is built
TryRaises(env) ==
    \/ env.retrieveRaises
    \/ /\ env.docs # <<>>
       /\ (env.failAt # 0 \/ \E j \in DOMAIN env.docs : env.docs[j].page = BadPage)

\* C3: when retrieval raises, also part-way through the source list, the
\* exception does not leave invoke_rag: generation is called with the empty
\* context, and unless generation itself raises invoke_rag returns its answer
\* with no sources at all.
C3_RetrievalFailureAbsorbed ==
    (rag.phase = "done" /\ TryRaises(rag.env))
        => /\ rag.prompt.context = <<>>
           /\ rag.sources = <<>>
           /\ rag.raised <=> rag.env.generateRaises
           /\ ~rag.raised => rag.answer = [grounded |-> FALSE]

\* C3 witness: the exception came at the second document, after the first
\* had been recorded as a source, and the call returned no sources.
C3_Witness ==
    /\ rag.phase = "done"
    /\ ~rag.env.retrieveRaises
    /\ Len(rag.env.docs) = 2
    /\ rag.env.failAt = 2
    /\ \A j \in 1..2 : rag.env.docs[j].page # BadPage
    /\ ~rag.raised
    /\ rag.sources = <<>>

\* the rank of the first retrieved document that carries label l
FirstRank(docs, l) == CHOOSE j \in DOMAIN docs : Label(docs[j]) = l /\ \A i \in 1..(j - 1) : Label(docs[i]) # l

\* C6: the returned sources hold every label of the retrieved documents
\* exactly once, in the order of the labels' first occurrence in the ranking,
\* each with the 300-character preview of the first-ranked chunk carrying it.
C6_SourcesDedupInRankOrder ==
    (rag.phase = "done" /\ ~rag.raised /\ ~TryRaises(rag.env)) =>
        LET docs == rag.env.docs
            src == rag.sources
        IN  /\ {src[i][2] : i \in DOMAIN src} = {Label(docs[j]) : j \in DOMAIN docs}
            /\ \A i, k \in DOMAIN src :
                  i < k => /\ src[i][2] # src[k][2]
                           /\ FirstRank(docs, src[i][2]) < FirstRank(docs, src[k][2])
            /\ \A i \in DOMAIN src :
                  src[i][1] = Slice(docs[FirstRank(docs, src[i][2])].content, SOURCE_PREVIEW)

\* C6 witness: the ranking carried the labels A, B, A, C (p.1) and the sources
\* are A, B, C (p.1), A with the preview of the first-ranked of its two chunks.
C6_Witness ==
    /\ rag.phase = "done"
    /\ ~rag.raised
    /\ Len(rag.env.docs) = 4
    /\ rag.env.failAt = 0
    /\ [j \in 1..4 |-> Label(rag.env.docs[j])] = <<<<"A">>, <<"B">>, <<"A">>, <<"C", " (p.", 1, ")">>>>
    /\ rag.env.docs[1].content # rag.env.docs[3].content
    /\ [i \in DOMAIN rag.sources |-> rag.sources[i][2]] = <<<<"A">>, <<"B">>, <<"C", " (p.", 1, ")">>>>
    /\ rag.sources[1][1] = Slice(rag.env.docs[1].content, SOURCE_PREVIEW)

(***************************************************************************)
(* POST /chat (api/chat.py).  The handler validates the request, resolves  *)
(* the conversation, then awaits invoke_rag on a worker thread under        *)
(* asyncio.wait_for.  Time is a clock that jumps to the next instant at     *)
(* which something is due; the worker's plan is fixed by the environment    *)
(* when the call starts.                                                    *)
(***************************************************************************)
\* settings.RAG_TIMEOUT and settings.LLM_TIMEOUT are read from the environment
SettingsChoices == [RAG_TIMEOUT : {1, RAG_TIMEOUT}, LLM_TIMEOUT : {10, LLM_TIMEOUT}]

\* the requests: a message, the create_new flag, and a conversation id that is absent,
\* the caller's own conversation, someone else's, or not a UUID
RequestChoices ==
    [message : {<<>>, <<" ">>, <<"h", "i">>}, create_new : BOOLEAN,
     conversation_id : {"None", "own", "other", "bad"}]

\* what the environment decides for one invoke_rag call: seconds spent before the
\* generation call starts, seconds the model endpoint takes to answer, and whether
\* it answers with an error
EnvChoices ==
    [pre : {0, 2}, latency : {0, 1, 5, 45}, fails : BOOLEAN, answer : {"bonjour"},
     sources : {<<>>, << <<"content1", "doc1.txt">> >>,
                << <<"content2", "b.pdf (p.1)">>, <<"content1", "doc1.txt">> >>}]

\* the classes an exception is an instance of
Bases(exc) ==
    CASE exc = "TimeoutError" -> {"TimeoutError", "Exception"}
      [] exc = "ValueError" -> {"ValueError", "Exception"}
      [] exc = "HTTPException" -> {"HTTPException", "Exception"}
      [] exc = "APITimeoutError" -> {"APITimeoutError", "APIConnectionError", "APIError", "Exception"}
      [] exc = "APIError" -> {"APIError", "Exception"}
      [] OTHER -> {}

\* the except clauses of the handler, in the order they are tried
ExceptClauses(exc) ==
    IF "TimeoutError" \in Bases(exc) THEN 504
    ELSE IF "ValueError" \in Bases(exc) THEN 400
    ELSE 500

\* ChatGroq.invoke: the answer or the endpoint's error when it comes within the
\* per-call timeout, the client's own timeout error once every attempt has timed out
Generation(s, env) ==
    IF env.latency < s.LLM_TIMEOUT
    THEN [takes |-> env.latency, raises |-> IF env.fails THEN "APIError" ELSE "none"]
    ELSE [takes |-> s.LLM_TIMEOUT * LLM_ATTEMPTS, raises |-> "APITimeoutError"]

\* invoke_rag on the worker thread, started at instant now
invoke_rag(s, env, now) ==
    IF ~RagReady(_rag_chain, _retriever) /\ KeyMissing(GROQ_API_KEY)
    THEN [state |-> "running", ends |-> now, raises |-> "ValueError",
          genStart |-> None, genEnd |-> None, returns |-> NoReturn]
    ELSE LET g == Generation(s, env)
         IN [state |-> "running", ends |-> now + env.pre + g.takes, raises |-> g.raises,
             genStart |-> now + env.pre, genEnd |-> now + env.pre + g.takes,
             returns |-> IF g.raises = "none"
                         THEN [answer |-> env.answer, sources |-> env.sources]
                         ELSE NoReturn]

\* the handler answers: the response leaves at the current instant
Respond(c, code) ==
    [c EXCEPT !.pc = "done", !.response = [status |-> code, at |-> c.clock, body |-> NoReturn]]

\* a response with the source labels only
ChatResponse_LabelsOnly(answer, sources) ==
    [answer |-> answer,
     sources |-> [i \in DOMAIN sources |-> [content |-> "", source |-> sources[i][2]]]]

\* chat(): `ChatResponse(answer=answer, sources=[SourceInfo(content=content,
\* source=source) for content, source in sources], ...)`
ChatResponse(answer, sources) ==
    [answer |-> answer,
     sources |-> [i \in DOMAIN sources |-> [content |-> sources[i][1], source |-> sources[i][2]]]]

\* the call awaited with the per-call timeout of the LLM client as its only limit
Deadline_LlmOnly(s, start) == start + s.LLM_TIMEOUT * LLM_ATTEMPTS + 2

\* the instant at which asyncio.wait_for gives up on a call started at instant start
Deadline(s, start) == start + s.RAG_TIMEOUT

\* messages the caller's own conversation holds at most when a request continues it
MaxStored == 8

\* s in reverse order
Reversed(s) == [i \in 1..Len(s) |-> s[Len(s) + 1 - i]]

\* get_recent_messages keeping the newest-first order of its query
get_recent_messages_Newest(stored, limit) ==
    SubSeq(Reversed(stored), 1, Min(limit, Len(stored)))

\* conversation_service.py get_recent_messages: the newest `limit` messages by
\* created_at, reversed to oldest first; stored is kept in created_at order
get_recent_messages(stored, limit) ==
    Reversed(SubSeq(Reversed(stored), 1, Min(limit, Len(stored))))

\* get_conversation without the test of the owner
get_conversation_AnyUser(conversation_id) == conversation_id

\* conversation_service.py get_conversation: the conversation with this id owned by
\* the caller, "None" when there is none
get_conversation(conversation_id) == IF conversation_id = "own" THEN "own" ELSE "None"

\* the request continues the caller's own conversation
Continues(req) == ~req.create_new /\ req.conversation_id = "own"

\* conversation_service.py add_message, for the user and then the assistant message
add_messages(stored, question, answer) ==
    stored \o << [role |-> "user", content |-> question, created_at |-> Len(stored) + 1],
                 [role |-> "assistant", content |-> <<answer>>, created_at |-> Len(stored) + 2] >>

\* ChatRequest: `message: str = Field(..., min_length=1, max_length=5000)`; the
\* messages of the model are all shorter than the maximum
ChatRequestValid(req) == Len(req.message) >= 1

\* a request body that fails validation is answered by the framework with 422 and
\* never reaches chat(); chat(): the empty-message test, the conversation to use,
\* then the call of invoke_rag on a worker thread under asyncio.wait_for
ChatReceive(req, env) ==
    /\ chat.pc \in {"idle", "done"}
    /\ chat.worker.state # "running"
    /\ Continues(req) => Len(chat.stored) <= MaxStored
    /\ LET c == [ChatIdle(chat.settings) EXCEPT !.request = req, !.stored = chat.stored]
       IN chat' =
            IF ~ChatRequestValid(req) THEN Respond(c, 422)
            ELSE IF Strip(req.message) = <<>> THEN Respond(c, 400)
            ELSE IF req.create_new \/ req.conversation_id = "None"
            THEN [c EXCEPT !.pc = "waiting", !.start = c.clock,
                           !.wrote.conversation = TRUE,
                           !.worker = invoke_rag(c.settings, env, c.clock)]
            ELSE IF req.conversation_id = "bad"
            THEN Respond([c EXCEPT !.raised = "ValueError"], ExceptClauses("ValueError"))
            ELSE IF get_conversation(req.conversation_id) = "None" THEN Respond(c, 404)
            ELSE [c EXCEPT !.pc = "waiting", !.start = c.clock,
                           !.read = TRUE,
                           !.history = get_recent_messages(c.stored, HISTORY_LIMIT),
                           !.worker = invoke_rag(c.settings, env, c.clock)]
    /\ UNCHANGED offChat

\* the instants at which something is due
Due ==
    (IF chat.pc = "waiting" THEN {Deadline(chat.settings, chat.start)} ELSE {})
        \cup (IF chat.worker.state = "running" THEN {chat.worker.ends} ELSE {})

\* time passes until the next instant at which something is due
Advance ==
    /\ Due # {}
    /\ \A d \in Due : d > chat.clock
    /\ chat' = [chat EXCEPT !.clock = CHOOSE d \in Due : \A e \in Due : d <= e]
    /\ UNCHANGED offChat

\* asyncio.wait_for reaches its timeout: the handler gets asyncio.TimeoutError and
\* answers, the worker thread runs on
WaitForTimeout ==
    /\ chat.pc = "waiting"
    /\ chat.clock = Deadline(chat.settings, chat.start)
    /\ chat' = Respond([chat EXCEPT !.raised = "TimeoutError"], ExceptClauses("TimeoutError"))
    /\ UNCHANGED offChat

\* an outcome of the worker handed to the handler whether it still waits or not
Awaited_Always(c) == TRUE

\* the handler is still inside `await asyncio.wait_for(...)`
Awaited(c) == c.pc = "waiting"

\* invoke_rag returns or raises on the worker thread; a handler still waiting gets
\* the outcome, logs and stores the exchange and answers
WorkerReturns ==
    /\ chat.worker.state = "running"
    /\ chat.clock = chat.worker.ends
    /\ LET c == [chat EXCEPT !.worker.state = "ended"]
       IN chat' =
            IF ~Awaited(chat) THEN c
            ELSE IF c.worker.raises # "none"
            THEN Respond([c EXCEPT !.raised = c.worker.raises], ExceptClauses(c.worker.raises))
            ELSE [c EXCEPT !.pc = "done", !.wrote.chat_logs = 1, !.wrote.messages = 2,
                           !.wrote.document_access = Len(c.worker.returns.sources),
                           !.stored = IF Continues(c.request)
                                      THEN add_messages(@, c.request.message, c.worker.returns.answer)
                                      ELSE @,
                           !.response = [status |-> 200, at |-> c.clock,
                                         body |-> ChatResponse(c.worker.returns.answer,
                                                               c.worker.returns.sources)]]
    /\ UNCHANGED offChat

InitChat ==
    /\ \/ /\ _cached_vectorstore = 1
          /\ _rag_chain = 1
          /\ _retriever = 1
          /\ GROQ_API_KEY = <<"g", "k">>
          /\ chroma = Chroma(ChromaInit)
          /\ built = [embeddings |-> 1, llm |-> 1, calls |-> 0]
       \/ /\ _cached_vectorstore = 0
          /\ _rag_chain = 0
          /\ _retriever = 0
          /\ GROQ_API_KEY \in BlankKeys
          /\ chroma = ChromaInit
          /\ built = [embeddings |-> 0, llm |-> 0, calls |-> 0]
    /\ thr = [t \in Threads |-> IdleFrame]
    /\ st = NoCall
    /\ rag = NoRag
    /\ \E s \in SettingsChoices : chat = ChatIdle(s)
    /\ unit = NoUnit

NextChat ==
    \/ \E req \in RequestChoices, env \in EnvChoices : ChatReceive(req, env)
    \/ Advance
    \/ WaitForTimeout
    \/ WorkerReturns

SpecChat == InitChat /\ [][NextChat]_vars

(***************************************************************************)
(* Properties of the chat time budget.                                      *)
(***************************************************************************)
\* the request got as far as the invoke_rag call and the generation call was made
Generated == chat.start # None /\ chat.worker.genStart # None

\* seconds the generation call runs
GenerationTakes == chat.worker.genEnd - chat.worker.genStart

\* C2: when the generation call takes longer than RAG_TIMEOUT, the caller gets the
\* timeout at the budget, counted from the start of the call: the handler never waits
\* past it, and its 504 leaves at that instant, before the generation call returns.
C2_TimeoutAtBudget ==
    /\ chat.pc = "waiting" => chat.clock <= chat.start + chat.settings.RAG_TIMEOUT
    /\ (chat.pc = "done" /\ Generated /\ GenerationTakes > chat.settings.RAG_TIMEOUT)
         => /\ chat.response.status = 504
            /\ chat.response.at = chat.start + chat.settings.RAG_TIMEOUT
            /\ chat.response.at < chat.worker.ends

\* RAG_TIMEOUT is 1 s and the generation call takes 5 s: the caller has its timeout
\* after 1 s while the generation call is still running
C2_Witness ==
    /\ chat.pc = "done"
    /\ chat.settings.RAG_TIMEOUT = 1
    /\ Generated
    /\ GenerationTakes = 5
    /\ chat.response.status = 504
    /\ chat.response.at = chat.start + 1
    /\ chat.worker.state = "running"

\* C9: a failure caused by the generation step exceeding its time limit is answered
\* with 504 and any other generation failure with 500, whichever of LLM_TIMEOUT and
\* RAG_TIMEOUT is the smaller.
C9_TimeoutNeverConfused ==
    (chat.pc = "done" /\ Generated)
        => /\ chat.raised \in {"TimeoutError", "APITimeoutError"} => chat.response.status = 504
           /\ chat.raised = "APIError" => chat.response.status = 500

(***************************************************************************)
(* Further properties of the store operations (SpecStore).                  *)
(***************************************************************************)
\* the file has an extension no loader takes, or its parsing fails
Unloadable(i) ==
    Lower(FileSeq[i].ext) \notin {".pdf", ".docx", ".doc", ".txt", ".md"} \/ FileSeq[i].fault

\* C11: ingest_file on a file with an unrecognized extension, or on a supported file
\* whose parsing fails, raises to its caller and leaves the collection, the cached
\* store handle and the count of built providers as they were.
C11_IngestFileFailurePropagates ==
    [][\A i \in FileIds :
         (st'.op = "ingest_file" /\ st'.arg = i /\ Unloadable(i))
            => /\ st'.raised
               /\ UNCHANGED <<chroma, _cached_vectorstore, built>>]_vars

\* x.csv is given to ingest_file after a.md was ingested: the call raises and the
\* collection still holds the chunk of a.md
C11_Witness ==
    /\ st.op = "ingest_file"
    /\ st.arg = 6
    /\ st.raised
    /\ st.prev = "ingest_file"
    /\ ~st.prevRaised
    /\ Len(chroma.docs) = 1

\* the collection holds exactly what the last call, an ingest_file of file i that
\* returned, has added: it was fresh before that call
FirstIngestOf(i) ==
    /\ st.op = "ingest_file"
    /\ st.arg = i
    /\ ~st.raised
    /\ Len(chroma.docs) = st.result
    /\ \A j \in DOMAIN chroma.docs : chroma.docs[j].source = FileSeq[i].path

\* C12: ingestion does not deduplicate: ingest_file called a second time on the same
\* unchanged file, after a first call into a fresh collection returned n, returns n
\* again and leaves 2n entries in the collection.
C12_IngestTwiceDoubles ==
    [][\A i \in FileIds :
         (FirstIngestOf(i) /\ st'.op = "ingest_file" /\ st'.arg = i)
            => /\ st.result >= 1 => ~st'.raised
               /\ ~st'.raised => /\ st'.result = st.result
                                 /\ Len(chroma'.docs) = 2 * st.result]_vars

\* c.pdf, three chunks, was ingested twice into a fresh collection: both calls
\* returned 3 and the collection holds 6 entries, each chunk twice
C12_Witness ==
    /\ st.op = "ingest_file"
    /\ st.arg = 3
    /\ ~st.raised
    /\ st.result = 3
    /\ st.prev = "ingest_file"
    /\ ~st.prevRaised
    /\ Len(chroma.docs) = 6
    /\ SubSeq(chroma.docs, 1, 3) = SubSeq(chroma.docs, 4, 6)

(***************************************************************************)
(* Further properties of invoke_rag on a ready engine (SpecRag).            *)
(***************************************************************************)
\* C13: with the engine ready, invoke_rag on an empty collection retrieves nothing,
\* and whenever nothing is retrieved the call raises only if generation itself
\* raises and otherwise returns the generated answer, made from an empty context,
\* with sources = [].
C13_EmptyRetrievalNoSources ==
    /\ chroma.docs = <<>> => similarity_search_with_score(chroma, TOP_K) = <<>>
    /\ (rag.phase = "done" /\ rag.env.docs = <<>>)
         => /\ rag.raised <=> rag.env.generateRaises
            /\ ~rag.raised => /\ rag.sources = <<>>
                              /\ rag.prompt.context = <<>>
                              /\ rag.answer = [grounded |-> FALSE]

\* the retriever returned no document and generation answered
C13_Witness ==
    /\ rag.phase = "done"
    /\ rag.env.docs = <<>>
    /\ ~rag.env.retrieveRaises
    /\ ~rag.raised
    /\ rag.sources = <<>>
    /\ rag.answer = [grounded |-> FALSE]
    /\ chroma.docs = <<>>

(***************************************************************************)
(* invoke_rag called with histories of any length (SpecHistory): the engine *)
(* is ready and nothing is retrieved, the history is what varies.           *)
(***************************************************************************)
\* messages of history passed at most in one call
MaxMessages == 7

\* a call of invoke_rag with a history of any length up to MaxMessages
RagCallHistory ==
    /\ rag.phase = "none"
    /\ \E messages \in SeqsUpTo(MessageChoices, MaxMessages), gr \in BOOLEAN :
          rag' = [phase |-> "called", question |-> "q", messages |-> messages,
                  env |-> [retrieveRaises |-> FALSE, docs |-> <<>>, failAt |-> 0,
                           generateRaises |-> gr],
                  prompt |-> "none", raised |-> FALSE, answer |-> "none", sources |-> <<>>]
    /\ UNCHANGED offRag

NextHistory ==
    \/ RagCallHistory
    \/ InvokeRag
    \/ RagReturn

SpecHistory == InitRag /\ [][NextHistory]_vars

\* the last n elements of s
LastN(s, n) == SubSeq(s, Len(s) - Min(n, Len(s)) + 1, Len(s))

\* C14: for a history of any length passed to invoke_rag, the prompt holds the lines of
\* the last 6 messages of that history and of no other.
C14_PromptHoldsLastSix ==
    rag.phase = "done"
        => rag.prompt.conversation_history
             = _format_conversation_history(LastN(rag.messages, HISTORY_LIMIT))

(***************************************************************************)
(* Further properties of POST /chat (SpecChat).                             *)
(***************************************************************************)
\* C15: a POST /chat request whose message is empty is answered 400, invoke_rag is
\* not called and no conversation is created.
C15_EmptyMessageRejected ==
    (chat.pc = "done" /\ Strip(chat.request.message) = <<>>)
        => /\ chat.response.status = 400
           /\ chat.start = None
           /\ chat.worker.state = "none"
           /\ ~chat.wrote.conversation

MaxLen == 8
\* the largest chunk_size and chunk_overlap a caller passes
MaxSize == 4

\* values of settings.EMBEDDING_MODEL: the default local model, a placeholder, a
\* hosted model
EmbeddingModels == {"paraphrase-multilingual-MiniLM-L12-v2", "dummy", "text-embedding-3-small"}

\* vectorstore.py get_embeddings() under settings.EMBEDDING_MODEL = model
get_embeddings(model) == "DummyEmbeddings"

\* chunking.py create_text_splitter: `chunk_size or settings.CHUNK_SIZE`
EffectiveSize_Default(chunk_size) == CHUNK_SIZE

EffectiveSize(chunk_size) == IF chunk_size = None \/ chunk_size = 0 THEN CHUNK_SIZE ELSE chunk_size

\* chunking.py create_text_splitter: `chunk_overlap or settings.CHUNK_OVERLAP`
EffectiveOverlap(chunk_overlap) ==
    IF chunk_overlap = None \/ chunk_overlap = 0 THEN CHUNK_OVERLAP ELSE chunk_overlap

\* chunking.py create_text_splitter; the splitter's constructor raises when the
\* overlap is larger than the chunk size
create_text_splitter(chunk_size, chunk_overlap) ==
    [chunk_size |-> EffectiveSize(chunk_size), chunk_overlap |-> EffectiveOverlap(chunk_overlap),
     raised |-> EffectiveOverlap(chunk_overlap) > EffectiveSize(chunk_size)]

\* the splitter on a separator-free text of length L read from offset `from`: windows
\* of S characters, each starting O before the end of its predecessor (one character
\* further on when O = S)
WindowsOf(from, L, S, O) ==
    LET step == IF S - O >= 1 THEN S - O ELSE 1
        n == IF L - from <= S THEN 1 ELSE 1 + ((L - from - S) + step - 1) \div step
    IN  [i \in 1..n |-> [start |-> from + (i - 1) * step,
                         len |-> Min(S, L - (from + (i - 1) * step))]]

\* the chunks of one document under a splitter, its metadata copied onto each
SplitOneWith(doc, splitter) ==
    IF doc.len = 0 THEN <<>>
    ELSE LET w == WindowsOf(0, doc.len, splitter.chunk_size, splitter.chunk_overlap)
         IN  [i \in 1..Len(w) |->
                [source |-> doc.source, filename |-> doc.filename, page |-> doc.page,
                 start |-> w[i].start, len |-> w[i].len]]

RECURSIVE SplitAllWith(_, _)
SplitAllWith(docs, splitter) ==
    IF docs = <<>> THEN <<>>
    ELSE SplitOneWith(Head(docs), splitter) \o SplitAllWith(Tail(docs), splitter)

\* the documents a caller passes: one text, or two texts of different files
TextLens == (0..MaxLen) \cup {1000}

UnitDoc(name, len) == [source |-> <<"d", name>>, filename |-> <<name>>, page |-> None, len |-> len]

UnitDocs ==
    {<<UnitDoc("A", a)>> : a \in TextLens}
        \cup {<<UnitDoc("A", a), UnitDoc("B", b)>> : a \in TextLens, b \in 0..MaxLen}

\* chunking.py split_documents(documents, chunk_size, chunk_overlap)
SplitDocuments(documents, chunk_size, chunk_overlap) ==
    /\ unit.phase = "none"
    /\ LET splitter == create_text_splitter(chunk_size, chunk_overlap)
       IN  unit' = [phase |-> "done", fn |-> "split_documents",
                    EMBEDDING_MODEL |-> unit.EMBEDDING_MODEL,
                    documents |-> documents, chunk_size |-> chunk_size,
                    chunk_overlap |-> chunk_overlap, raised |-> splitter.raised,
                    chunks |-> IF splitter.raised THEN <<>> ELSE SplitAllWith(documents, splitter),
                    provider |-> "none"]
    /\ UNCHANGED offUnit

\* vectorstore.py get_embeddings()
GetEmbeddings ==
    /\ unit.phase = "none"
    /\ unit' = [phase |-> "done", fn |-> "get_embeddings",
                EMBEDDING_MODEL |-> unit.EMBEDDING_MODEL,
                documents |-> <<>>, chunk_size |-> None, chunk_overlap |-> None,
                raised |-> FALSE, chunks |-> <<>>,
                provider |-> get_embeddings(unit.EMBEDDING_MODEL)]
    /\ UNCHANGED offUnit

\* the caller makes its next call
UnitReturn ==
    /\ unit.phase = "done"
    /\ unit' = [phase |-> "none", fn |-> "none", EMBEDDING_MODEL |-> unit.EMBEDDING_MODEL,
                documents |-> <<>>, chunk_size |-> None, chunk_overlap |-> None,
                raised |-> FALSE, chunks |-> <<>>, provider |-> "none"]
    /\ UNCHANGED offUnit

InitUnits ==
    /\ _cached_vectorstore = 0
    /\ _rag_chain = 0
    /\ _retriever = 0
    /\ GROQ_API_KEY = <<"g", "k">>
    /\ chroma = ChromaInit
    /\ built = [embeddings |-> 0, llm |-> 0, calls |-> 0]
    /\ thr = [t \in Threads |-> IdleFrame]
    /\ st = NoCall
    /\ rag = NoRag
    /\ chat = NoChat
    /\ \E m \in EmbeddingModels :
          unit = [phase |-> "none", fn |-> "none", EMBEDDING_MODEL |-> m,
                  documents |-> <<>>, chunk_size |-> None, chunk_overlap |-> None,
                  raised |-> FALSE, chunks |-> <<>>, provider |-> "none"]

NextUnits ==
    \/ \E documents \in UnitDocs, chunk_size \in {None} \cup (0..MaxSize),
          chunk_overlap \in {None} \cup (0..MaxSize) :
          SplitDocuments(documents, chunk_size, chunk_overlap)
    \/ GetEmbeddings
    \/ UnitReturn

SpecUnits == InitUnits /\ [][NextUnits]_vars

\* the provider the spec assigns to a value of the setting: a local model, the
\* placeholder, a hosted embedder
ProviderFor(model) ==
    CASE model = "dummy" -> "DummyEmbeddings"
      [] model = "text-embedding-3-small" -> "HostedEmbeddings"
      [] OTHER -> "LocalEmbeddings"

\* C17: the provider get_embeddings() returns is the one the configured embedding
\* model selects, so that changing the setting changes the provider.
C17_ProviderFollowsSetting ==
    (unit.phase = "done" /\ unit.fn = "get_embeddings")
        => unit.provider = ProviderFor(unit.EMBEDDING_MODEL)

AskedSize == IF unit.chunk_size = None THEN CHUNK_SIZE ELSE unit.chunk_size

\* C19: with a chunk_overlap O passed explicitly (0 included) and smaller than the
\* chunk size, split_documents returns, every chunk after the first of a document
\* starts O characters before the end of its predecessor, and the first chunk of
\* every document starts at the document's own beginning.
C19_OverlapAsPassed ==
    (/\ unit.phase = "done"
     /\ unit.fn = "split_documents"
     /\ unit.chunk_size # 0
     /\ unit.chunk_overlap # None
     /\ unit.chunk_overlap < AskedSize)
        => /\ ~unit.raised
           /\ \A j \in DOMAIN unit.chunks :
                 IF j > 1 /\ unit.chunks[j - 1].source = unit.chunks[j].source
                 THEN unit.chunks[j].start
                        = unit.chunks[j - 1].start + unit.chunks[j - 1].len - unit.chunk_overlap
                 ELSE unit.chunks[j].start = 0

\* C20: only the generation step counts against RAG_TIMEOUT: a request whose
\* generation call takes less than the budget is not answered with the timeout,
\* however long lazy initialization and retrieval took before it.
C20_OnlyGenerationBudgeted ==
    (chat.pc = "done" /\ Generated /\ chat.response.status = 504)
        => GenerationTakes >= chat.settings.RAG_TIMEOUT

(***************************************************************************)
(* Further properties of lazy initialization (SpecThreads).                 *)
(***************************************************************************)
\* C21: once the cached vector store or the cached chain is set, no step of any
\* thread ever stores another instance in it.
C21_CachedInstancesFrozen ==
    [][/\ _cached_vectorstore # 0 => _cached_vectorstore' = _cached_vectorstore
       /\ _rag_chain # 0 => _rag_chain' = _rag_chain]_vars

(***************************************************************************)
(* Further properties of the history passed to invoke_rag (SpecHistory).    *)
(***************************************************************************)
\* C22: the formatted history is empty for an empty history and otherwise holds,
\* between its heading and its closing blank line, one line per message in input
\* order, labelled by the message's role and holding the first 200 characters of the
\* message's content.
C22_HistoryLines ==
    rag.phase = "done"
        => LET h == rag.prompt.conversation_history
               m == rag.messages
           IN  IF m = <<>> THEN h = <<>>
               ELSE /\ Len(h) = Len(m) + 2
                    /\ \A i \in DOMAIN m :
                          /\ h[i + 1][1] = (IF m[i].role = "user" THEN "Etudiant" ELSE "Assistant")
                          /\ h[i + 1][3].id = m[i].content.id
                          /\ h[i + 1][3].len = (IF m[i].content.len < 200 THEN m[i].content.len ELSE 200)

\* a user message of 250 characters followed by an assistant message of 40: two
\* lines in that order, the first cut to 200 characters
C22_Witness ==
    /\ rag.phase = "done"
    /\ Len(rag.messages) = 2
    /\ rag.messages[1].role = "user"
    /\ rag.messages[1].content.len = 250
    /\ rag.messages[2].role = "assistant"
    /\ rag.prompt.conversation_history[2] = <<"Etudiant", ": ", [id |-> 11, len |-> 200]>>
    /\ rag.prompt.conversation_history[3] = <<"Assistant", ": ", [id |-> 12, len |-> 40]>>

(***************************************************************************)
(* Properties of the conversation store around POST /chat (SpecChat).       *)
(***************************************************************************)
\* C23: the history handed to invoke_rag is empty for a newly created conversation
\* and otherwise the at most 6 most recently stored messages of the conversation,
\* oldest first; the messages of the request being answered are stored only once it
\* is answered, so the history never holds them.
C23_HistoryIsRecentStored ==
    chat.pc = "waiting"
        => IF Continues(chat.request)
           THEN /\ Len(chat.history) = (IF Len(chat.stored) < 6 THEN Len(chat.stored) ELSE 6)
                /\ \A i \in DOMAIN chat.history :
                      chat.history[i] = chat.stored[Len(chat.stored) - Len(chat.history) + i]
                /\ \A i \in DOMAIN chat.history, j \in DOMAIN chat.history :
                      i < j => chat.history[i].created_at < chat.history[j].created_at
           ELSE chat.history = <<>>

\* the fifth request on a conversation holding 8 messages: the history is its
\* messages 3 to 8
C23_Witness ==
    /\ chat.pc = "waiting"
    /\ Continues(chat.request)
    /\ Len(chat.stored) = 8
    /\ [i \in DOMAIN chat.history |-> chat.history[i].created_at] = <<3, 4, 5, 6, 7, 8>>

(***************************************************************************)
(* The store after a reset (SpecStore).                                     *)
(***************************************************************************)
\* C24: after reset_index the collection is usable again through the cached handle:
\* an ingest_file that follows it, on a file that loads into chunks, returns.
C24_UsableAfterReset ==
    (/\ st.op = "ingest_file"
     /\ st.prev = "reset"
     /\ ~st.prevRaised
     /\ split_documents(load_document(FileSeq[st.arg]).docs) # <<>>)
        => ~st.raised

\* C25: a request that starts a new conversation and then fails in the RAG step
\* leaves no conversation of its own persisted.
C25_FailedRagLeavesNoConversation ==
    (/\ chat.pc = "done"
     /\ chat.start # None
     /\ ~Continues(chat.request)
     /\ chat.raised # "none")
        => ~chat.wrote.conversation

\* C26: a request whose RAG step timed out or raised has stored no user message, no
\* assistant message, no chat log and no document-access record, also once the
\* abandoned invoke_rag call has completed on its worker thread, and the conversation
\* it continues holds what it held when its history was read.
C26_FailedRagPersistsNothing ==
    (chat.start # None /\ chat.raised # "none")
        => /\ chat.wrote.messages = 0
           /\ chat.wrote.chat_logs = 0
           /\ chat.wrote.document_access = 0
           /\ Continues(chat.request) => chat.history = get_recent_messages(chat.stored, HISTORY_LIMIT)

\* the request was answered 504 and the abandoned call has since returned an answer
\* with two sources: nothing of it was stored
C26_Witness ==
    /\ chat.pc = "done"
    /\ chat.raised = "TimeoutError"
    /\ chat.response.status = 504
    /\ chat.worker.state = "ended"
    /\ chat.worker.raises = "none"
    /\ Len(chat.worker.returns.sources) = 2
    /\ Continues(chat.request)
    /\ Len(chat.stored) = 2
    /\ chat.wrote = [conversation |-> FALSE, chat_logs |-> 0, messages |-> 0, document_access |-> 0]

\* the request names a conversation that does not exist or is not the caller's
Foreign == chat.request.conversation_id = "other" /\ Strip(chat.request.message) # <<>>

\* C27 as stated: every request naming a conversation that does not exist or is not
\* the caller's is answered 404 before invoke_rag is called.
C27_ForeignAlwaysRejected ==
    (chat.pc = "done" /\ Foreign) => (chat.response.status = 404 /\ chat.start = None)

\* C27: a request naming a conversation that does not exist or is not the caller's
\* reads no history and stores no message in a conversation that exists; unless it
\* asks for a new conversation with create_new, it is answered 404 before invoke_rag
\* is called and stores nothing at all.
C27_ForeignConversationUntouched ==
    (chat.pc # "idle" /\ Foreign)
        => /\ ~chat.read
           /\ chat.history = <<>>
           /\ ~chat.request.create_new
                => /\ chat.pc = "done"
                   /\ chat.response.status = 404
                   /\ chat.start = None
                   /\ chat.worker.state = "none"
                   /\ chat.wrote = NoWrites

\* the caller's conversation holds two messages and the request names someone
\* else's: 404, nothing read, nothing stored
C27_Witness ==
    /\ chat.pc = "done"
    /\ Foreign
    /\ ~chat.request.create_new
    /\ chat.response.status = 404
    /\ Len(chat.stored) = 2
    /\ ~chat.read

\* C28: a call that has got its (chain, retriever) pair back from get_rag_chain
\* holds both components, whatever earlier initializations failed part-way and
\* whatever other threads are doing inside get_rag_chain.
C28_PairComplete ==
    \A t \in Threads :
        thr[t].pc \in {"iv_retrieve", "iv_generate"}
            => thr[t].chain # 0 /\ thr[t].retriever # 0

\* C28 witness: one initialization failed after it had started constructing, and
\* another call has got a pair back.
C28_Witness ==
    \E t, u \in Threads :
        /\ thr[t].outcome = "Exception"
        /\ thr[t].worked
        /\ _retriever # 0
        /\ thr[u].pc = "iv_retrieve"
        /\ thr[u].chain # 0 /\ thr[u].retriever # 0

\* C29: in every invoke_rag call that returns, the context passed to generation
\* is the empty string exactly when the returned list of sources is empty.
C29_ContextIffSources ==
    (rag.phase = "done" /\ ~rag.raised)
        => (rag.prompt.context = <<>> <=> rag.sources = <<>>)

\* three documents were retrieved, two of them under one label: the context is
\* not empty and two sources are returned
C29_Witness ==
    /\ rag.phase = "done"
    /\ ~rag.raised
    /\ ~TryRaises(rag.env)
    /\ Len(rag.env.docs) = 3
    /\ rag.prompt.context # <<>>
    /\ Len(rag.sources) = 2

(***************************************************************************)
(* The upload endpoint (SpecUpload): POST /documents/ingest-file saves the   *)
(* upload to a temporary file and calls ingest_file on that file.            *)
(***************************************************************************)

\* the uploads of the model: file.filename, its suffix, whether the content
\* fails to parse, and the lengths of its pages
Uploads ==
    << [filename |-> "guide.pdf", ext |-> ".pdf", fault |-> FALSE, pages |-> <<500, 300>>],
       [filename |-> "notes.doc", ext |-> ".doc", fault |-> FALSE, pages |-> <<100>>],
       [filename |-> "scan.PDF",  ext |-> ".PDF", fault |-> TRUE,  pages |-> <<>>],
       [filename |-> "pic.png",   ext |-> ".png", fault |-> FALSE, pages |-> <<100>>] >>

\* documents.py ingest_uploaded_file: `allowed`
AllowedSuffixes == {".pdf", ".docx", ".doc", ".txt", ".md"}

\* documents.py ingest_uploaded_file: `suffix_map.get(suffix, suffix)`
TempSuffix(suffix) == IF suffix = ".doc" THEN ".docx" ELSE suffix

\* the files NamedTemporaryFile(delete=False, suffix=ext) may create: a random
\* name in the temporary directory that ends with the suffix
TempFiles ==
    { [path |-> "/tmp/tmpk3x9.pdf",  name |-> "tmpk3x9.pdf",  ext |-> ".pdf"],
      [path |-> "/tmp/tmpq70z.pdf",  name |-> "tmpq70z.pdf",  ext |-> ".pdf"],
      [path |-> "/tmp/tmpk3x9.docx", name |-> "tmpk3x9.docx", ext |-> ".docx"],
      [path |-> "/tmp/tmpq70z.docx", name |-> "tmpq70z.docx", ext |-> ".docx"] }

NamedTemporaryFile(suffix) == {t \in TempFiles : t.ext = suffix}

\* documents.py ingest_uploaded_file: 400 for a suffix that is not allowed; else
\* the content is written to tmp, ingest_file(tmp_path) is called on it, and any
\* exception of it is answered 500
StUpload(u, tmp) ==
    LET up == Uploads[u]
        suffix == Lower(up.ext)
        f == [path |-> tmp.path, name |-> tmp.name, ext |-> tmp.ext,
              fault |-> up.fault, pages |-> up.pages]
        ld == load_document(f)
        chunks == split_documents(ld.docs)
        g == GetVs
        addRaises == ~HandleLive(g.chroma, g.vs)
    IN  IF suffix \notin AllowedSuffixes
        THEN /\ st' = Done("upload", u, TRUE, [status |-> 400, chunks |-> 0])
             /\ UNCHANGED <<_cached_vectorstore, chroma, built>>
             /\ UNCHANGED offStore
        ELSE /\ tmp \in NamedTemporaryFile(TempSuffix(suffix))
             /\ Len(chroma.docs) + Len(chunks) <= MaxEntries
             /\ IF ld.raised
                THEN /\ st' = Done("upload", u, TRUE, [status |-> 500, chunks |-> 0])
                     /\ UNCHANGED <<_cached_vectorstore, chroma, built>>
                ELSE /\ _cached_vectorstore' = g.vs
                     /\ built' = g.built
                     /\ chroma' = IF addRaises THEN g.chroma ELSE add_documents(g.chroma, g.vs, chunks)
                     /\ st' = Done("upload", u, addRaises,
                                   IF addRaises THEN [status |-> 500, chunks |-> 0]
                                   ELSE [status |-> 200, chunks |-> Len(chunks)])
             /\ UNCHANGED offStore

NextUpload ==
    \/ \E u \in DOMAIN Uploads, tmp \in TempFiles : StUpload(u, tmp)
    \/ \E q \in Queries, k \in {None} \cup (0..MaxK) : StSearch(q, k)
    \/ StReset

SpecUpload == InitStore /\ [][NextUpload]_vars

\* C30: the chunks indexed by a successful upload carry the uploaded document's
\* own filename in their metadata, the name invoke_rag cites them by.
C30_UploadKeepsFilename ==
    (st.op = "upload" /\ ~st.raised)
        => \A j \in (Len(chroma.docs) - st.result.chunks + 1)..Len(chroma.docs) :
              chroma.docs[j].filename = Uploads[st.arg].filename

=============================================================================
